---- MODULE Spec2Model ----
(***************************************************************************)
(* Model of the rollout-collection and policy-update engine of            *)
(* exaLearnMol:                                                            *)
(*   - src/src/dgapn/train.py : Memory, Worker.run, train_gpu_sync         *)
(*   - src/src/gcpn/PPO.py    : PPO_GCPN.update, PPO_GCPN.update_disc      *)
(* Spec    is the parallel trainer (coordinator + worker processes).       *)
(* SpecPPO is one PPO_GCPN object whose update() is called repeatedly.     *)
(***************************************************************************)
EXTENDS Integers, Sequences, FiniteSets, TLC

\* ------------------------------------------------------------------------
\* Configuration (args.*) and model bounds
\* ------------------------------------------------------------------------
nb_procs == 2
max_timesteps == 2
update_timesteps == 3
max_episodes == 3
iota == 1
innovation_reward_episode_delay == 0
innovation_reward_episode_cutoff == 2
MaxCands == 2

Slots == 0 .. (nb_procs - 1)
Procs == 1 .. nb_procs

\* Python's None for a slot index, and for a state (molecule).
NoneIdx == -1
NoMol == [slot |-> NoneIdx, depth |-> NoneIdx]

\* A molecule as the environment hands it out.  The fields are tags kept for
\* verification: the slot index of the reset command that started the
\* trajectory, and the number of step continuations applied since then.
Mol(s, d) == [slot |-> s, depth |-> d]

VARIABLES
  tasks,             \* mp.JoinableQueue: the queued commands, FIFO
  unfinished,        \* JoinableQueue's count of put-but-not-task_done items
  results,           \* mp.Queue: the published results, FIFO
  wpc,               \* per worker process: "get" | "run" | "exited"
  wtask,             \* per worker process: the command it holds
  timestep_counter,  \* Worker.timestep_counter
  pills,             \* per worker: number of sentinels consumed
  cpc,               \* coordinator position in train_gpu_sync
  ci,                \* coordinator loop index
  i_episode, sample_count, episode_count,
  memory, memories,
  states, notdone_idx, done_idx, new_notdone_idx, new_done_idx,
  candidates, batch_idx, actions,
  sent, got,         \* commands put / results read in the current round
  phases, updates,   \* collection phases begun / model.update calls made
  shutdowns,         \* times the shutdown sequence has been performed
  \* ---- PPO_GCPN (gcpn/PPO.py) ----
  ppc,               \* position in PPO_GCPN.update / update_disc
  mem_rewards, mem_terminals,   \* memory.rewards, memory.is_terminals
  rpos,              \* positions of the reversed zip still to visit
  discounted_reward, \* the running accumulator
  rewards,           \* the list of returns being built
  policy, policy_old,\* parameters of self.policy / self.policy_old
  epoch,             \* loop index i of the K-epoch loop
  old_writes,        \* writes of policy_old in the current update cycle
  terms,             \* the epoch's surrogate term l and its summed loss
  truth,             \* update(): truth is not None
  old_logprobs,      \* update(): the log-probabilities read from the buffer
  evals,             \* policy.evaluate calls of the current update cycle
  opt_steps,         \* optimizer.step calls of the current update cycle
  surr,              \* one sample of one ratio channel: ratio, advantage, l
  \* ---- train_ppo (gcpn/PPO.py) ----
  tpc,               \* position in train_ppo
  eval,              \* args.eval
  ppo_i_episode,     \* i_episode of train_ppo
  ppo_t,             \* t, the step index within the episode
  ppo_time_step,     \* time_step
  trajectory_count,
  ppo_memory,        \* memory.rewards, memory.is_terminals
  info,              \* the info dict of the step
  step_out,          \* what env.step and the two scorers did in the step
  ppo_updates,       \* calls of ppo.update made by train_ppo
  disc_updates,      \* calls of ppo.update_disc made by train_ppo
  \* ---- train_serial (dgapn/train.py) ----
  spc,               \* position in train_serial
  serial_i_episode,  \* i_episode of train_serial
  serial_t,          \* t, the step index within the episode
  time_step,         \* time_step of train_serial
  serial_memory,     \* memory of train_serial
  serial_state,      \* state
  serial_candidates, \* candidates
  serial_done,       \* done
  serial_updates,    \* calls of model.update made by train_serial
  env_dones,         \* done flags env.step returned in the current episode
  serial_pairs       \* (reward, terminal) pairs recorded in the episode

syncVars == <<tasks, unfinished, results, wpc, wtask, timestep_counter,
              pills, cpc, ci, i_episode, sample_count,
              episode_count, memory, memories, states, notdone_idx, done_idx,
              new_notdone_idx, new_done_idx, candidates, batch_idx, actions,
              sent, got, phases, updates, shutdowns>>
ppoVars == <<ppc, mem_rewards, mem_terminals, rpos, discounted_reward,
             rewards, policy, policy_old, epoch, old_writes, terms, truth,
             old_logprobs, evals, opt_steps>>
cycleVars == <<truth, old_logprobs, evals, opt_steps>>
updateVars == <<ppc, mem_rewards, mem_terminals, rpos, discounted_reward,
                rewards, epoch, old_writes, terms, cycleVars>>
tppoVars == <<tpc, eval, ppo_i_episode, ppo_t, ppo_time_step,
              trajectory_count, ppo_memory, info, step_out, ppo_updates,
              disc_updates>>
serialVars == <<spc, serial_i_episode, serial_t, time_step, serial_memory,
                serial_state, serial_candidates, serial_done, serial_updates,
                env_dones, serial_pairs>>
otherVars == <<surr, tppoVars, serialVars>>
vars == <<syncVars, ppoVars, otherVars>>

\* ------------------------------------------------------------------------
\* Memory (train.py 26-52)
\* ------------------------------------------------------------------------
\* Memory.__init__ (lines 27-34)
Memory == [states |-> <<>>, candidates |-> <<>>, states_next |-> <<>>,
           actions |-> <<>>, logprobs |-> <<>>, rewards |-> <<>>,
           terminals |-> <<>>]

\* Variant that forgets one of the seven lists.
MemoryExtendNoRewards(m, o) ==
  [states      |-> m.states \o o.states,
   candidates  |-> m.candidates \o o.candidates,
   states_next |-> m.states_next \o o.states_next,
   actions     |-> m.actions \o o.actions,
   logprobs    |-> m.logprobs \o o.logprobs,
   rewards     |-> m.rewards,
   terminals   |-> m.terminals \o o.terminals]

\* Memory.extend (lines 36-43)
MemoryExtend(m, o) ==
  [states      |-> m.states \o o.states,
   candidates  |-> m.candidates \o o.candidates,
   states_next |-> m.states_next \o o.states_next,
   actions     |-> m.actions \o o.actions,
   logprobs    |-> m.logprobs \o o.logprobs,
   rewards     |-> m.rewards \o o.rewards,
   terminals   |-> m.terminals \o o.terminals]

\* Memory.clear (lines 45-52)
MemoryClear(m) == Memory

\* ------------------------------------------------------------------------
\* Messages
\* ------------------------------------------------------------------------
Pill == [kind |-> "pill", index |-> NoneIdx, state |-> NoMol, done |-> TRUE]
Cmd(i, s, d) == [kind |-> "cmd", index |-> i, state |-> s, done |-> d]
\* The local next_task of a worker that holds no command.
NoTask == [kind |-> "none", index |-> NoneIdx, state |-> NoMol, done |-> TRUE]
Result(i, s, c, d) == [index |-> i, state |-> s, cands |-> c, done |-> d]

Repeat(x, n) == [k \in 1 .. n |-> x]

\* ------------------------------------------------------------------------
\* Collaborators outside src/ (environment, reward, policy network)
\* ------------------------------------------------------------------------
\* The candidate set of a molecule: its successors, 1..MaxCands of them.
NumCands(mol) == 1 + ((mol.slot + mol.depth) % MaxCands)
CandidatesOf(mol) == Repeat(Mol(mol.slot, mol.depth + 1), NumCands(mol))

\* env.reset(): a fresh start state with its candidates, or a rejected initial
\* state (done, no candidates).
EnvResetOutcomes(index) ==
  { [state |-> Mol(index, 0), cands |-> CandidatesOf(Mol(index, 0)),
     done |-> FALSE],
    [state |-> Mol(index, 0), cands |-> <<>>, done |-> TRUE] }

\* env.reset(state): the given state with its candidates, or the given state
\* as a final one (done, no candidates).
EnvStepOutcomes(state) ==
  { [state |-> state, cands |-> CandidatesOf(state), done |-> FALSE],
    [state |-> state, cands |-> <<>>, done |-> TRUE] }

\* get_main_reward: a score of the terminal molecule.
MainReward(mol) == 10 + mol.depth

\* model.get_inno_reward: a novelty score per state.
InnoReward(mol) == 1

\* Embeddings returned by model.select_action.
Emb(mol) == <<mol>>

\* ------------------------------------------------------------------------
\* Floating-point values of the loss computation (PPO.py 243-280)
\* ------------------------------------------------------------------------
\* A float is finite (val in units of 1 / RatioDen), +inf, -inf or NaN.
Fin(v) == [cls |-> "fin", val |-> v]
PosInf == [cls |-> "inf", val |-> 0]
NegInf == [cls |-> "ninf", val |-> 0]
NaN == [cls |-> "nan", val |-> 0]

\* torch.isnan
IsNaN(x) == x.cls = "nan"
IsFinite(x) == x.cls = "fin"

\* The sign of a float that is not NaN: -1, 0 or 1.
Sign(x) ==
  IF x.cls = "inf" THEN 1
  ELSE IF x.cls = "ninf" THEN -1
  ELSE IF x.val > 0 THEN 1 ELSE IF x.val < 0 THEN -1 ELSE 0

\* unary minus (line 253)
FNeg(x) ==
  IF x.cls = "fin" THEN Fin(-x.val)
  ELSE IF x.cls = "inf" THEN NegInf
  ELSE IF x.cls = "ninf" THEN PosInf
  ELSE NaN

\* r * advantages (lines 251-252): the advantage is in whole units, so the
\* product keeps the unit of the ratio; inf * 0 is NaN.
FMul(x, y) ==
  IF IsNaN(x) \/ IsNaN(y) THEN NaN
  ELSE IF IsFinite(x) /\ IsFinite(y) THEN Fin(x.val * y.val)
  ELSE IF Sign(x) * Sign(y) = 0 THEN NaN
  ELSE IF Sign(x) * Sign(y) > 0 THEN PosInf ELSE NegInf

\* x <= y for floats that are not NaN
FLeq(x, y) ==
  \/ x.cls = "ninf"
  \/ y.cls = "inf"
  \/ (x.cls = "fin" /\ y.cls = "fin" /\ x.val <= y.val)

\* torch.min(a, b), elementwise: NaN if either operand is NaN (line 253)
FMin(x, y) ==
  IF IsNaN(x) \/ IsNaN(y) THEN NaN
  ELSE IF FLeq(x, y) THEN x ELSE y

\* torch.clamp(x, lo, hi): NaN stays NaN (line 252)
FClamp(x, lo, hi) ==
  IF IsNaN(x) THEN NaN
  ELSE IF FLeq(x, Fin(lo)) THEN Fin(lo)
  ELSE IF FLeq(Fin(hi), x) THEN Fin(hi)
  ELSE x

\* a + b (lines 264, 266, 280): inf + -inf is NaN
FAdd(x, y) ==
  IF IsNaN(x) \/ IsNaN(y) THEN NaN
  ELSE IF IsFinite(x) /\ IsFinite(y) THEN Fin(x.val + y.val)
  ELSE IF IsFinite(x) THEN y
  ELSE IF IsFinite(y) THEN x
  ELSE IF x.cls = y.cls THEN x ELSE NaN

\* eps_clip = 0.2 (PPO.py 355), in units of 1 / RatioDen
RatioDen == 10
eps_clip == 2

\* Variant without the clamp.
SurrogateUnclipped(ratio, advantage) ==
  FNeg(FMul(ratio, advantage))

\* lines 251-253: l = -min(r * A, clamp(r, 1 - eps, 1 + eps) * A)
Surrogate(ratio, advantage) ==
  LET surr1 == FMul(ratio, advantage)
      surr2 == FMul(FClamp(ratio, RatioDen - eps_clip, RatioDen + eps_clip),
                    advantage)
  IN FNeg(FMin(surr1, surr2))

\* Values of one entry of ratios = exp(logprobs - old_logprobs) (line 243)
\* and of advantages = rewards - state_values (line 247).
MaxAdv == 3
Ratios == { Fin(v) : v \in {0, 5, 7, 8, 9, 10, 11, 12, 13, 15, 20} }
            \cup {PosInf, NaN}
Advantages == { Fin(a) : a \in (-MaxAdv) .. MaxAdv } \cup {PosInf, NegInf, NaN}

\* No epoch evaluated yet in this update cycle.
NoTerms == [l |-> "fin", loss |-> "fin", adversarial |-> FALSE, den |-> 0]
NoSurr == [ratio |-> Fin(RatioDen), advantage |-> Fin(0), l |-> Fin(0)]

\* ------------------------------------------------------------------------
\* Values of train_ppo (PPO.py 430-513)
\* ------------------------------------------------------------------------
\* The reward and terminal lists of gcpn's Memory (PPO.py 37, 512-513)
PPOMemory == [rewards |-> <<>>, is_terminals |-> <<>>]

\* An info entry: a value, None, or a key the step has not set.
Some(v) == [set |-> TRUE, none |-> FALSE, val |-> v]
None == [set |-> TRUE, none |-> TRUE, val |-> 0]
Unset == [set |-> FALSE, none |-> FALSE, val |-> 0]

\* info as env.step returns it, before lines 457-485 add their entries
EnvInfo == [surrogate_reward |-> Unset, adversarial_reward |-> Unset,
            final_reward |-> Unset]

\* A scorer call that returned val, raised, or was not made.
Returned(v) == [called |-> TRUE, raised |-> FALSE, val |-> v]
Raised == [called |-> TRUE, raised |-> TRUE, val |-> 0]
NotCalled == [called |-> FALSE, raised |-> FALSE, val |-> 0]

NoStep == [reward |-> 0, done |-> FALSE, surr |-> NotCalled,
           advers |-> NotCalled]

\* ------------------------------------------------------------------------
\* Initial state: after construction (train.py 58-59, 144-146, 184-198;
\* PPO.py 170-196)
\* ------------------------------------------------------------------------
\* Values a parameter set of the policy network can take.
Params == 0 .. 2

Init ==
  /\ tasks = <<>>
  /\ unfinished = 0
  /\ results = <<>>
  /\ wpc = [w \in Procs |-> "get"]
  /\ wtask = [w \in Procs |-> NoTask]
  /\ timestep_counter = [w \in Procs |-> 0]
  /\ pills = [w \in Procs |-> 0]
  /\ cpc = "start"
  /\ ci = 0
  /\ i_episode = 0
  /\ sample_count = 0
  /\ episode_count = 0
  /\ memory = Memory
  /\ memories = [s \in Slots |-> Memory]
  /\ states = [s \in Slots |-> NoMol]
  /\ notdone_idx = <<>>
  /\ done_idx = <<>>
  /\ new_notdone_idx = <<>>
  /\ new_done_idx = <<>>
  /\ candidates = <<>>
  /\ batch_idx = <<>>
  /\ actions = <<>>
  /\ sent = 0
  /\ got = 0
  /\ phases = 0
  /\ updates = 0
  /\ shutdowns = 0
  /\ ppc = "idle"
  /\ mem_rewards = <<>>
  /\ mem_terminals = <<>>
  /\ rpos = 0
  /\ discounted_reward = 0
  /\ rewards = <<>>
  /\ policy = 0
  /\ policy_old = policy
  /\ epoch = 0
  /\ old_writes = 0
  /\ terms = NoTerms
  /\ truth = FALSE
  /\ old_logprobs = 0
  /\ evals = 0
  /\ opt_steps = 0
  /\ surr = NoSurr
  /\ tpc = "init"
  /\ eval = FALSE
  /\ ppo_i_episode = 0
  /\ ppo_t = 0
  /\ ppo_time_step = 0
  /\ trajectory_count = 0
  /\ ppo_memory = PPOMemory
  /\ info = EnvInfo
  /\ step_out = NoStep
  /\ ppo_updates = 0
  /\ disc_updates = 0
  /\ spc = "episode"
  /\ serial_i_episode = 0
  /\ serial_t = 0
  /\ time_step = 0
  /\ serial_memory = Memory
  /\ serial_state = NoMol
  /\ serial_candidates = <<>>
  /\ serial_done = FALSE
  /\ serial_updates = 0
  /\ env_dones = <<>>
  /\ serial_pairs = <<>>

\* ------------------------------------------------------------------------
\* Worker.run (train.py 83-108)
\* ------------------------------------------------------------------------
workerVars == <<wpc, wtask, timestep_counter, pills>>
coordVars == <<cpc, ci, i_episode, sample_count, episode_count, memory,
               memories, states, notdone_idx, done_idx, new_notdone_idx,
               new_done_idx, candidates, batch_idx, actions, sent, got,
               phases, updates, shutdowns>>

\* line 84: next_task = self.task_queue.get()
WorkerGet(w) ==
  /\ wpc[w] = "get"
  /\ tasks # <<>>
  /\ wtask' = [wtask EXCEPT ![w] = Head(tasks)]
  /\ tasks' = Tail(tasks)
  /\ wpc' = [wpc EXCEPT ![w] = "run"]
  /\ UNCHANGED <<unfinished, results, timestep_counter, pills,
                 coordVars, ppoVars, otherVars>>

\* Variant that goes on to the next task_queue.get().
AfterPillContinue == "get"

\* line 89: break
AfterPill == "exited"

\* lines 85-89: poison pill: task_done() and leave the loop
WorkerPill(w) ==
  /\ wpc[w] = "run"
  /\ wtask[w].kind = "pill"
  /\ unfinished' = unfinished - 1
  /\ pills' = [pills EXCEPT ![w] = @ + 1]
  /\ wpc' = [wpc EXCEPT ![w] = AfterPill]
  /\ wtask' = [wtask EXCEPT ![w] = NoTask]
  /\ UNCHANGED <<tasks, results, timestep_counter, coordVars, ppoVars, otherVars>>

\* lines 91-95: dummy task: publish (None, None, None, True), task_done()
WorkerDummy(w) ==
  /\ wpc[w] = "run"
  /\ wtask[w].kind = "cmd"
  /\ wtask[w].index = NoneIdx
  /\ results' = Append(results, Result(NoneIdx, NoMol, <<>>, TRUE))
  /\ unfinished' = unfinished - 1
  /\ wpc' = [wpc EXCEPT ![w] = "get"]
  /\ wtask' = [wtask EXCEPT ![w] = NoTask]
  /\ UNCHANGED <<tasks, timestep_counter, pills, coordVars, ppoVars, otherVars>>

\* lines 97-99, 106-107: reset command, result published, task_done()
WorkerReset(w) ==
  /\ wpc[w] = "run"
  /\ wtask[w].kind = "cmd"
  /\ wtask[w].index # NoneIdx
  /\ wtask[w].done
  /\ timestep_counter' = [timestep_counter EXCEPT ![w] = 0]
  /\ \E o \in EnvResetOutcomes(wtask[w].index) :
       results' = Append(results,
                            Result(wtask[w].index, o.state, o.cands, o.done))
  /\ unfinished' = unfinished - 1
  /\ wpc' = [wpc EXCEPT ![w] = "get"]
  /\ wtask' = [wtask EXCEPT ![w] = NoTask]
  /\ UNCHANGED <<tasks, pills, coordVars, ppoVars, otherVars>>

\* lines 103-104: the horizon forces done
HorizonDone(counter, done) == done \/ counter >= max_timesteps

\* lines 100-107: step continuation, result published, task_done()
WorkerStep(w) ==
  /\ wpc[w] = "run"
  /\ wtask[w].kind = "cmd"
  /\ wtask[w].index # NoneIdx
  /\ ~wtask[w].done
  /\ timestep_counter' = [timestep_counter EXCEPT ![w] = @ + 1]
  /\ \E o \in EnvStepOutcomes(wtask[w].state) :
       results' = Append(results,
                            Result(wtask[w].index, o.state, o.cands,
                                   HorizonDone(timestep_counter'[w], o.done)))
  /\ unfinished' = unfinished - 1
  /\ wpc' = [wpc EXCEPT ![w] = "get"]
  /\ wtask' = [wtask EXCEPT ![w] = NoTask]
  /\ UNCHANGED <<tasks, pills, coordVars, ppoVars, otherVars>>

\* ------------------------------------------------------------------------
\* train_gpu_sync (train.py 199-360)
\* ------------------------------------------------------------------------
chanVars == <<tasks, unfinished, results>>
roundVars == <<states, notdone_idx, done_idx, new_notdone_idx, new_done_idx,
               candidates, batch_idx, actions>>
countVars == <<i_episode, sample_count, episode_count>>

RECURSIVE Flatten(_)
Flatten(ss) == IF ss = <<>> THEN <<>> ELSE Head(ss) \o Flatten(Tail(ss))

InSeq(x, s) == \E k \in 1 .. Len(s) : s[k] = x

\* tasks.put(x) on the JoinableQueue
TasksPut(x) ==
  /\ tasks' = Append(tasks, x)
  /\ unfinished' = unfinished + 1

\* Variant that does not wait for the acknowledgements.
JoinReturnsAtOnce(u) == TRUE

\* tasks.join() (lines 203, 246, 360) returns once every item put has been
\* acknowledged with task_done()
JoinReturns(u) == u = 0

\* line 199 (condition true), 200
PhaseBegin ==
  /\ cpc = "start"
  /\ i_episode < max_episodes
  /\ cpc' = "init_put"
  /\ ci' = 0
  /\ sent' = 0
  /\ got' = 0
  /\ phases' = phases + 1
  /\ UNCHANGED <<chanVars, workerVars, countVars, memory, memories, roundVars,
                 updates, shutdowns, ppoVars, otherVars>>

\* lines 201-202: one reset command per slot
InitPut ==
  /\ cpc = "init_put"
  /\ ci < nb_procs
  /\ TasksPut(Cmd(ci, NoMol, TRUE))
  /\ ci' = ci + 1
  /\ sent' = sent + 1
  /\ cpc' = IF ci + 1 = nb_procs THEN "init_join" ELSE "init_put"
  /\ UNCHANGED <<results, workerVars, countVars, memory, memories, roundVars,
                 got, phases, updates, shutdowns, ppoVars, otherVars>>

\* lines 203-207: tasks.join() returns; fresh round lists
InitJoin ==
  /\ cpc = "init_join"
  /\ JoinReturns(unfinished)
  /\ states' = [s \in Slots |-> NoMol]
  /\ done_idx' = <<>>
  /\ notdone_idx' = <<>>
  /\ candidates' = <<>>
  /\ batch_idx' = <<>>
  /\ ci' = 0
  /\ cpc' = "init_get"
  /\ UNCHANGED <<chanVars, workerVars, countVars, memory, memories,
                 new_notdone_idx, new_done_idx, actions, sent, got, phases,
                 updates, shutdowns, ppoVars, otherVars>>

\* Variant that reads one result fewer than there are workers.
ResultsPerRoundShort == nb_procs - 1

\* lines 208 and 251: for i in range(args.nb_procs): results.get()
ResultsPerRound == nb_procs

\* lines 209-215: the first round files every result as not done
InitGet ==
  /\ cpc = "init_get"
  /\ results # <<>>
  /\ LET r == Head(results) IN
       /\ states' = [states EXCEPT ![r.index] = r.state]
       /\ notdone_idx' = Append(notdone_idx, r.index)
       /\ candidates' = Append(candidates, r.cands)
       /\ batch_idx' = batch_idx \o Repeat(r.index, Len(r.cands))
  /\ results' = Tail(results)
  /\ ci' = ci + 1
  /\ got' = got + 1
  /\ cpc' = IF ci + 1 = ResultsPerRound THEN "select" ELSE "init_get"
  /\ UNCHANGED <<tasks, unfinished, workerVars, countVars, memory, memories,
                 done_idx, new_notdone_idx, new_done_idx, actions, sent,
                 phases, updates, shutdowns, ppoVars, otherVars>>

\* model.select_action: one action index per active slot, an index into that
\* slot's candidate list (0 when the list is empty).
ActionChoices ==
  { a \in [1 .. Len(notdone_idx) -> 0 .. (MaxCands - 1)] :
      \A k \in 1 .. Len(notdone_idx) :
        IF Len(candidates[k]) = 0 THEN a[k] = 0 ELSE a[k] < Len(candidates[k]) }

\* lines 218-227: action selection for the active slots
SelectAction ==
  /\ cpc = "select"
  /\ Len(notdone_idx) > 0
  /\ \E a \in ActionChoices : actions' = a
  /\ ci' = 0
  /\ sent' = 0
  /\ got' = 0
  /\ cpc' = "put"
  /\ UNCHANGED <<chanVars, workerVars, countVars, memory, memories, states,
                 notdone_idx, done_idx, new_notdone_idx, new_done_idx,
                 candidates, batch_idx, phases, updates, shutdowns, ppoVars, otherVars>>

\* Variant that leaves the round loop as soon as no slot is active.
BudgetIgnored(sc) == TRUE

\* lines 228-230: the loop exit test
BudgetMet(sc) == sc >= update_timesteps

\* lines 228-229 (condition false): nothing active, budget unmet
SelectSkip ==
  /\ cpc = "select"
  /\ Len(notdone_idx) = 0
  /\ ~BudgetMet(sample_count)
  /\ ci' = 0
  /\ sent' = 0
  /\ got' = 0
  /\ cpc' = "put"
  /\ UNCHANGED <<chanVars, workerVars, countVars, memory, memories, roundVars,
                 phases, updates, shutdowns, ppoVars, otherVars>>

\* lines 228-230: break
LoopExit ==
  /\ cpc = "select"
  /\ Len(notdone_idx) = 0
  /\ BudgetMet(sample_count)
  /\ cpc' = "merge"
  /\ UNCHANGED <<chanVars, workerVars, ci, countVars, memory, memories,
                 roundVars, sent, got, phases, updates, shutdowns, ppoVars, otherVars>>

\* Variant without the batch_idx filter.
CandsOfAnySlot(idx) ==
  LET candidates_emb == Flatten(candidates)
  IN [j \in 1 .. Len(candidates_emb) |-> Emb(candidates_emb[j])]

\* line 234: the candidate embeddings whose batch_idx entry is idx
CandsOf(idx) ==
  LET candidates_emb == Flatten(candidates)
      keep == { j \in 1 .. Len(candidates_emb) : batch_idx[j] = idx }
      F[j \in 0 .. Len(candidates_emb)] ==
        IF j = 0 THEN <<>>
        ELSE IF j \in keep THEN Append(F[j - 1], Emb(candidates_emb[j]))
             ELSE F[j - 1]
  IN F[Len(candidates_emb)]

\* Variant that does not record the log-probability of the action.
RecordStepNoLogprob(m, i, idx) ==
  LET cands == CandsOf(idx) IN
  [m EXCEPT !.states = Append(@, Emb(states[notdone_idx[i]])),
            !.candidates = Append(@, cands),
            !.states_next = Append(@, cands[actions[i] + 1]),
            !.actions = Append(@, actions[i])]

\* lines 236-240: the step recorded for slot idx at position i
RecordStep(m, i, idx) ==
  LET cands == CandsOf(idx) IN
  [m EXCEPT !.states = Append(@, Emb(states[notdone_idx[i]])),
            !.candidates = Append(@, cands),
            !.states_next = Append(@, cands[actions[i] + 1]),
            !.actions = Append(@, actions[i]),
            !.logprobs = Append(@, 0)]

\* Variant that addresses every continuation to the first active slot.
ContinuationToFirst(i, idx) ==
  Cmd(notdone_idx[1], candidates[i][actions[i] + 1], FALSE)

\* line 233: the continuation command of position i
Continuation(i, idx) == Cmd(idx, candidates[i][actions[i] + 1], FALSE)

\* lines 232-240: continuation command and recorded step of one active slot
PutStep ==
  /\ cpc = "put"
  /\ ci < Len(notdone_idx)
  /\ LET i == ci + 1
         idx == notdone_idx[i]
     IN /\ Len(candidates[i]) > 0
        /\ TasksPut(Continuation(i, idx))
        /\ memories' = [memories EXCEPT ![idx] = RecordStep(@, i, idx)]
  /\ ci' = ci + 1
  /\ sent' = sent + 1
  /\ cpc' = IF ci + 1 = Len(notdone_idx) + Len(done_idx) THEN "join" ELSE "put"
  /\ UNCHANGED <<results, workerVars, countVars, memory, roundVars, got,
                 phases, updates, shutdowns, ppoVars, otherVars>>

\* line 233 with an empty candidate list: IndexError ends train_gpu_sync
PutCrash ==
  /\ cpc = "put"
  /\ ci < Len(notdone_idx)
  /\ Len(candidates[ci + 1]) = 0
  /\ cpc' = "crashed"
  /\ UNCHANGED <<chanVars, workerVars, ci, countVars, memory, memories,
                 roundVars, sent, got, phases, updates, shutdowns, ppoVars, otherVars>>

\* Variant without the budget test.
ResetAlways(idx, sc) == Cmd(idx, NoMol, TRUE)

\* Variant that sends the filler whatever the budget.
FillerAlways(idx, sc) == Cmd(NoneIdx, NoMol, TRUE)

\* lines 242-245: reset command, or the filler once the budget is met
ResetOrFiller(idx, sc) ==
  IF sc >= update_timesteps THEN Cmd(NoneIdx, NoMol, TRUE)
  ELSE Cmd(idx, NoMol, TRUE)

\* lines 241-245: one command per slot awaiting reset
PutReset ==
  /\ cpc = "put"
  /\ ci >= Len(notdone_idx)
  /\ ci < Len(notdone_idx) + Len(done_idx)
  /\ TasksPut(ResetOrFiller(done_idx[ci - Len(notdone_idx) + 1], sample_count))
  /\ ci' = ci + 1
  /\ sent' = sent + 1
  /\ cpc' = IF ci + 1 = Len(notdone_idx) + Len(done_idx) THEN "join" ELSE "put"
  /\ UNCHANGED <<results, workerVars, countVars, memory, memories, roundVars,
                 got, phases, updates, shutdowns, ppoVars, otherVars>>

\* lines 246-250: tasks.join() returns; fresh round lists
Join ==
  /\ cpc = "join"
  /\ JoinReturns(unfinished)
  /\ states' = [s \in Slots |-> NoMol]
  /\ new_done_idx' = <<>>
  /\ new_notdone_idx' = <<>>
  /\ candidates' = <<>>
  /\ batch_idx' = <<>>
  /\ ci' = 0
  /\ cpc' = "get"
  /\ UNCHANGED <<chanVars, workerVars, countVars, memory, memories,
                 notdone_idx, done_idx, actions, sent, got, phases, updates,
                 shutdowns, ppoVars, otherVars>>

\* lines 252-261: one result read and filed by its done flag
Get ==
  /\ cpc = "get"
  /\ results # <<>>
  /\ LET r == Head(results) IN
       /\ states' = IF r.index # NoneIdx
                    THEN [states EXCEPT ![r.index] = r.state] ELSE states
       /\ IF r.done
          THEN /\ new_done_idx' = Append(new_done_idx, r.index)
               /\ UNCHANGED <<new_notdone_idx, candidates, batch_idx>>
          ELSE /\ new_notdone_idx' = Append(new_notdone_idx, r.index)
               /\ candidates' = Append(candidates, r.cands)
               /\ batch_idx' = batch_idx \o Repeat(r.index, Len(r.cands))
               /\ UNCHANGED new_done_idx
  /\ results' = Tail(results)
  /\ ci' = ci + 1
  /\ got' = got + 1
  /\ cpc' = IF ci + 1 = ResultsPerRound THEN "rewards" ELSE "get"
  /\ UNCHANGED <<tasks, unfinished, workerVars, countVars, memory, memories,
                 notdone_idx, done_idx, actions, sent, phases, updates,
                 shutdowns, ppoVars, otherVars>>

\* Variant that takes every active slot for finished.
NowDoneAll == notdone_idx

\* lines 263-264
NowDone == SelectSeq(notdone_idx, LAMBDA idx : InSeq(idx, new_done_idx))
StillNotDone == SelectSeq(notdone_idx, LAMBDA idx : InSeq(idx, new_notdone_idx))

\* Variant that records the main reward without the terminal flag.
RECURSIVE AddMainRewardsUnflagged(_, _)
AddMainRewardsUnflagged(mems, idxs) ==
  IF idxs = <<>> THEN mems
  ELSE LET idx == Head(idxs) IN
       AddMainRewardsUnflagged(
         [mems EXCEPT ![idx].rewards = Append(@, MainReward(states[idx])),
                      ![idx].terminals = Append(@, FALSE)],
         Tail(idxs))

\* lines 271-283: main reward and terminal flag of each finished slot
RECURSIVE AddMainRewards(_, _)
AddMainRewards(mems, idxs) ==
  IF idxs = <<>> THEN mems
  ELSE LET idx == Head(idxs) IN
       AddMainRewards(
         [mems EXCEPT ![idx].rewards = Append(@, MainReward(states[idx])),
                      ![idx].terminals = Append(@, TRUE)],
         Tail(idxs))

\* lines 284-288: zero reward for each slot still running
RECURSIVE AddZeroRewards(_, _)
AddZeroRewards(mems, idxs) ==
  IF idxs = <<>> THEN mems
  ELSE LET idx == Head(idxs) IN
       AddZeroRewards(
         [mems EXCEPT ![idx].rewards = Append(@, 0),
                      ![idx].terminals = Append(@, FALSE)],
         Tail(idxs))

\* lines 290-292
InnovationWindow(ep) ==
  /\ iota > 0
  /\ ep > innovation_reward_episode_delay
  /\ ep < innovation_reward_episode_cutoff

\* lines 300-305: innovation reward added to the last recorded reward
RECURSIVE AddInnoRewards(_, _)
AddInnoRewards(mems, idxs) ==
  IF idxs = <<>> THEN mems
  ELSE LET idx == Head(idxs)
           n == Len(mems[idx].rewards)
       IN AddInnoRewards(
            [mems EXCEPT ![idx].rewards[n] = @ + iota * InnoReward(states[idx])],
            Tail(idxs))

\* Variant that counts the round's finished episodes instead of its steps.
SamplesOfRoundFinished == Len(NowDone)

\* line 307: the steps recorded in the round, len(notdone_idx)
SamplesOfRound == Len(notdone_idx)

\* lines 262-312: rewards of the round, counters, next round's slot lists
Rewards ==
  /\ cpc = "rewards"
  /\ LET ep == i_episode + Len(NowDone)
         m1 == AddMainRewards(memories, NowDone)
         m2 == AddZeroRewards(m1, StillNotDone)
     IN /\ i_episode' = ep
        /\ memories' = IF InnovationWindow(ep)
                       THEN AddInnoRewards(m2, notdone_idx) ELSE m2
  /\ sample_count' = sample_count + SamplesOfRound
  /\ episode_count' = episode_count + Len(NowDone)
  /\ done_idx' = new_done_idx
  /\ notdone_idx' = new_notdone_idx
  /\ cpc' = "select"
  /\ UNCHANGED <<chanVars, workerVars, ci, memory, states, new_notdone_idx,
                 new_done_idx, candidates, batch_idx, actions, sent, got,
                 phases, updates, shutdowns, ppoVars, otherVars>>

\* lines 314-316: every slot buffer appended to the aggregate, then cleared
RECURSIVE MergeAll(_, _)
MergeAll(agg, k) ==
  IF k = nb_procs THEN agg ELSE MergeAll(MemoryExtend(agg, memories[k]), k + 1)

Merge ==
  /\ cpc = "merge"
  /\ memory' = MergeAll(memory, 0)
  /\ memories' = [s \in Slots |-> MemoryClear(memories[s])]
  /\ cpc' = "update"
  /\ UNCHANGED <<chanVars, workerVars, ci, countVars, roundVars, sent, got,
                 phases, updates, shutdowns, ppoVars, otherVars>>

\* line 319: model.update(memory)
Update ==
  /\ cpc = "update"
  /\ updates' = updates + 1
  /\ cpc' = "clear"
  /\ UNCHANGED <<chanVars, workerVars, ci, countVars, memory, memories,
                 roundVars, sent, got, phases, shutdowns, ppoVars, otherVars>>

\* lines 320-353 without the break: buffer cleared, counters reset
PhaseEnd ==
  /\ cpc = "clear"
  /\ memory' = MemoryClear(memory)
  /\ episode_count' = 0
  /\ sample_count' = 0
  /\ cpc' = "start"
  /\ UNCHANGED <<chanVars, workerVars, ci, i_episode, memories, roundVars,
                 sent, got, phases, updates, shutdowns, ppoVars, otherVars>>

\* lines 320-329: buffer cleared, then the "solved" break
Solved ==
  /\ cpc = "clear"
  /\ memory' = MemoryClear(memory)
  /\ ci' = 0
  /\ sent' = 0
  /\ cpc' = "close"
  /\ UNCHANGED <<chanVars, workerVars, countVars, memories, roundVars, got,
                 phases, updates, shutdowns, ppoVars, otherVars>>

\* line 199 (condition false), 355-356
LoopEnd ==
  /\ cpc = "start"
  /\ ~(i_episode < max_episodes)
  /\ ci' = 0
  /\ sent' = 0
  /\ cpc' = "close"
  /\ UNCHANGED <<chanVars, workerVars, countVars, memory, memories, roundVars,
                 got, phases, updates, shutdowns, ppoVars, otherVars>>

\* lines 358-359: one poison pill per process
ClosePut ==
  /\ cpc = "close"
  /\ ci < nb_procs
  /\ TasksPut(Pill)
  /\ ci' = ci + 1
  /\ sent' = sent + 1
  /\ cpc' = IF ci + 1 = nb_procs THEN "close_join" ELSE "close"
  /\ UNCHANGED <<results, workerVars, countVars, memory, memories, roundVars,
                 got, phases, updates, shutdowns, ppoVars, otherVars>>

\* line 360: tasks.join() returns
CloseJoin ==
  /\ cpc = "close_join"
  /\ JoinReturns(unfinished)
  /\ shutdowns' = shutdowns + 1
  /\ cpc' = "finished"
  /\ UNCHANGED <<chanVars, workerVars, ci, countVars, memory, memories,
                 roundVars, sent, got, phases, updates, ppoVars, otherVars>>

Worker(w) ==
  \/ WorkerGet(w)
  \/ WorkerPill(w)
  \/ WorkerDummy(w)
  \/ WorkerReset(w)
  \/ WorkerStep(w)

Coordinator ==
  \/ PhaseBegin \/ InitPut \/ InitJoin \/ InitGet
  \/ SelectAction \/ SelectSkip \/ LoopExit
  \/ PutStep \/ PutCrash \/ PutReset \/ Join \/ Get \/ Rewards
  \/ Merge \/ Update \/ PhaseEnd \/ Solved
  \/ LoopEnd \/ ClosePut \/ CloseJoin

Next == Coordinator \/ \E w \in Procs : Worker(w)

Spec == Init /\ [][Next]_vars

\* Every process that can take a step eventually does: the coordinator and
\* each worker are operating-system processes of their own.
Fairness ==
  /\ WF_vars(Coordinator)
  /\ \A w \in Procs : WF_vars(Worker(w))

SpecFair == Spec /\ Fairness

\* lines 358-360 performed once more, on the pool that has already stopped
ShutdownAgain ==
  /\ cpc = "finished"
  /\ shutdowns = 1
  /\ ci' = 0
  /\ sent' = 0
  /\ cpc' = "close"
  /\ UNCHANGED <<chanVars, workerVars, countVars, memory, memories, roundVars,
                 got, phases, updates, shutdowns, ppoVars, otherVars>>

SpecReshutdown ==
  /\ Init
  /\ [][Next \/ ShutdownAgain]_vars
  /\ Fairness
  /\ WF_vars(ShutdownAgain)

\* lines 97-102: env.reset raises in a worker; run() has no handler, so the
\* process ends holding its command: no result is put, no task_done() called
WorkerFail(w) ==
  /\ wpc[w] = "run"
  /\ wtask[w].kind = "cmd"
  /\ wtask[w].index # NoneIdx
  /\ wpc' = [wpc EXCEPT ![w] = "failed"]
  /\ UNCHANGED <<chanVars, wtask, timestep_counter, pills, coordVars, ppoVars,
                 otherVars>>

SpecFailure ==
  /\ Init
  /\ [][Next \/ \E w \in Procs : WorkerFail(w)]_vars
  /\ Fairness

\* lines 265-267: get_main_reward raises while the rewards of the slots
\* that have just terminated are computed; train_gpu_sync has no handler
RewardRaise ==
  /\ cpc = "rewards"
  /\ Len(NowDone) > 0
  /\ cpc' = "crashed"
  /\ UNCHANGED <<chanVars, workerVars, ci, countVars, memory, memories,
                 roundVars, sent, got, phases, updates, shutdowns, ppoVars,
                 otherVars>>

\* line 319: model.update raises; train_gpu_sync has no handler
UpdateRaise ==
  /\ cpc = "update"
  /\ cpc' = "crashed"
  /\ UNCHANGED <<chanVars, workerVars, ci, countVars, memory, memories,
                 roundVars, sent, got, phases, updates, shutdowns, ppoVars,
                 otherVars>>

SpecAbort ==
  /\ Init
  /\ [][Next \/ RewardRaise \/ UpdateRaise]_vars
  /\ Fairness

\* ------------------------------------------------------------------------
\* PPO_GCPN (PPO.py 137-306)
\* ------------------------------------------------------------------------
\* self.gamma = GammaNum / GammaDen; self.K_epochs
GammaNum == 9
GammaDen == 10
K_epochs == 2
MaxLen == 3
RewardValues == {0, 1, 5}

RECURSIVE Pow(_, _)
Pow(b, e) == IF e = 0 THEN 1 ELSE b * Pow(b, e - 1)

\* Returns are kept as integers in units of 1 / Scale, which represents
\* every return of a buffer of at most MaxLen steps exactly.
Scale == Pow(GammaDen, MaxLen)

\* Variant without the reset at a terminal flag.
DiscountStepNoReset(reward, is_terminal, dr) ==
  reward * Scale + (GammaNum * dr) \div GammaDen

\* lines 215-217: one iteration of the reversed loop
DiscountStep(reward, is_terminal, dr) ==
  LET acc == IF is_terminal THEN 0 ELSE dr
  IN reward * Scale + (GammaNum * acc) \div GammaDen

\* Variant that leaves the target as it was.
LoadNothing(target, source) == target

\* load_state_dict(source) into target (lines 196, 288, 306)
LoadStateDict(target, source) == source

\* The log-probabilities that a parameter set gives the recorded actions
\* (policy_old.act at selection, policy.evaluate in an epoch).
LogProbs(params) == params

\* update() is entered with a non-empty buffer (lines 210-213); the old
\* log-probabilities are read from the buffer and detached (lines 228, 232)
UpdateBegin ==
  /\ ppc = "idle"
  /\ \E n \in 1 .. MaxLen :
       /\ mem_rewards' \in [1 .. n -> RewardValues]
       /\ mem_terminals' \in [1 .. n -> BOOLEAN]
       /\ rpos' = n
  /\ discounted_reward' = 0
  /\ rewards' = <<>>
  /\ old_writes' = 0
  /\ epoch' = 0
  /\ ppc' = "returns"
  /\ terms' = NoTerms
  /\ truth' \in BOOLEAN
  /\ old_logprobs' = LogProbs(policy_old)
  /\ evals' = 0
  /\ opt_steps' = 0
  /\ UNCHANGED <<policy, policy_old, syncVars, otherVars>>

\* lines 214-218: visit the buffer in reverse, insert at the front
ReturnStep ==
  /\ ppc = "returns"
  /\ rpos >= 1
  /\ LET dr == DiscountStep(mem_rewards[rpos], mem_terminals[rpos],
                            discounted_reward)
     IN /\ discounted_reward' = dr
        /\ rewards' = <<dr>> \o rewards
  /\ rpos' = rpos - 1
  /\ ppc' = IF rpos = 1 THEN "epoch" ELSE "returns"
  /\ UNCHANGED <<mem_rewards, mem_terminals, policy, policy_old, epoch,
                 old_writes, terms, cycleVars, syncVars, otherVars>>

\* Values of the entropy term (line 264), of the value term (line 266) and
\* of the adversarial term (line 278).
LossTerms == {Fin(1), PosInf, NaN}

\* Variant that adds the adversarial term in every epoch.
AdversarialDueEveryEpoch(i, tr) == tr

\* line 270: truth is not None and (i + 1) == self.K_epochs
AdversarialDue(i, tr) == tr /\ i + 1 = K_epochs

\* lines 270-280: what is added to the loss of epoch i (Fin(0): nothing)
AdvTerms(i, tr) == IF AdversarialDue(i, tr) THEN LossTerms ELSE {Fin(0)}

\* What l can be for an epoch, up to the size of a finite value: finite,
\* +inf, -inf or NaN, as lines 251-253 produce them.
SurrogateOutcomes ==
  { [cls |-> Surrogate(r, a).cls, val |-> 0] : r \in Ratios, a \in Advantages }

\* line 254: torch.isnan(l).any()
NaNCheck(l) == IsNaN(l)

\* lines 262-280: the loss of the epoch, the sum of its terms
Loss(l, entropy, value, adversarial) ==
  FAdd(FAdd(FAdd(l, entropy), value), adversarial)

\* Variant that divides by the live policy's log-probabilities.
DenominatorLive(old, live) == live

\* line 243: the denominator of the ratios, old_logprobs.detach()
Denominator(old, live) == old

\* What the evaluation of an epoch leaves behind: the kind of l and the
\* denominator of its ratios (lines 240-253).
EvalOutcomes(nan) ==
  { [l |-> l.cls, loss |-> IF nan THEN l.cls ELSE "fin", adversarial |-> FALSE,
     den |-> Denominator(old_logprobs, LogProbs(policy))] :
      l \in { x \in SurrogateOutcomes : NaNCheck(x) = nan } }

\* What epoch i leaves behind after the check of line 254 has passed: the
\* kind of the loss it steps on (line 284) and whether the adversarial term
\* is part of it.
EpochOutcomes(i) ==
  { [terms EXCEPT !.loss = Loss([cls |-> terms.l, val |-> 0], e, v, d).cls,
                  !.adversarial = AdversarialDue(i, truth)] :
      e \in LossTerms, v \in LossTerms, d \in AdvTerms(i, truth) }

\* lines 238-261: an epoch begins: evaluate the live policy, compute the
\* surrogate term, which passes the check of line 254
EpochEval ==
  /\ ppc = "epoch"
  /\ epoch < K_epochs
  /\ terms' \in EvalOutcomes(FALSE)
  /\ evals' = evals + 1
  /\ ppc' = "step"
  /\ UNCHANGED <<mem_rewards, mem_terminals, rpos, discounted_reward, rewards,
                 policy, policy_old, epoch, old_writes, truth, old_logprobs,
                 opt_steps, syncVars, otherVars>>

\* lines 262-285: the epoch ends: sum the loss, take a gradient step
EpochStep ==
  /\ ppc = "step"
  /\ terms' \in EpochOutcomes(epoch)
  /\ policy' \in Params
  /\ epoch' = epoch + 1
  /\ opt_steps' = opt_steps + 1
  /\ ppc' = "epoch"
  /\ UNCHANGED <<mem_rewards, mem_terminals, rpos, discounted_reward, rewards,
                 policy_old, old_writes, truth, old_logprobs, evals, syncVars,
                 otherVars>>

\* lines 240-260: NaN in the surrogate loss: exit()
EpochNaN ==
  /\ ppc = "epoch"
  /\ epoch < K_epochs
  /\ terms' \in EvalOutcomes(TRUE)
  /\ evals' = evals + 1
  /\ ppc' = "exited"
  /\ UNCHANGED <<mem_rewards, mem_terminals, rpos, discounted_reward, rewards,
                 policy, policy_old, epoch, old_writes, truth, old_logprobs,
                 opt_steps, syncVars, otherVars>>

\* lines 287-288: copy new weights into the old policy; update() returns and
\* its locals are gone
CopyOld ==
  /\ ppc = "epoch"
  /\ epoch = K_epochs
  /\ policy_old' = LoadStateDict(policy_old, policy)
  /\ old_writes' = old_writes + 1
  /\ ppc' = "idle"
  /\ terms' = NoTerms
  /\ truth' = FALSE
  /\ old_logprobs' = 0
  /\ evals' = 0
  /\ opt_steps' = 0
  /\ UNCHANGED <<mem_rewards, mem_terminals, rpos, discounted_reward, rewards,
                 policy, epoch, syncVars, otherVars>>

\* lines 290-303: update_disc: one gradient step on the discriminator loss
DiscStep ==
  /\ ppc = "idle"
  /\ policy' \in Params
  /\ ppc' = "disc"
  /\ UNCHANGED <<mem_rewards, mem_terminals, rpos, discounted_reward, rewards,
                 policy_old, epoch, old_writes, terms, cycleVars, syncVars,
                 otherVars>>

\* lines 305-306: update_disc: copy new weights into the old policy
DiscCopy ==
  /\ ppc = "disc"
  /\ policy_old' = LoadStateDict(policy_old, policy)
  /\ ppc' = "idle"
  /\ UNCHANGED <<mem_rewards, mem_terminals, rpos, discounted_reward, rewards,
                 policy, epoch, old_writes, terms, cycleVars, syncVars,
                 otherVars>>

NextPPO ==
  \/ UpdateBegin \/ ReturnStep \/ EpochEval \/ EpochStep \/ EpochNaN
  \/ CopyOld
  \/ DiscStep \/ DiscCopy

SpecPPO == Init /\ [][NextPPO]_vars

\* lines 250-253 applied to one sample of one ratio channel
SurrogateEval ==
  /\ \E r \in Ratios, a \in Advantages :
       surr' = [ratio |-> r, advantage |-> a, l |-> Surrogate(r, a)]
  /\ UNCHANGED <<syncVars, ppoVars, tppoVars, serialVars>>

SpecSurrogate == Init /\ [][SurrogateEval]_vars

\* ------------------------------------------------------------------------
\* train_ppo (PPO.py 430-583)
\* ------------------------------------------------------------------------
\* Hyperparameters (344-356) and args; rewards are in units of 1 / RewardDen.
ppo_max_episodes == 3
ppo_max_timesteps == 2
update_timestep == 2
truth_frequency == 2
use_surrogate == TRUE
surrogate_reward_episode_delay == 1
use_adversarial == TRUE
adversarial_reward_episode_cutoff == 3
RewardDen == 2
EnvRewards == {0, RewardDen}
ScorerRewards == {RewardDen}

\* Variant that keeps a reward marker when the scorer raised.
TryScoreMarksZero(reward, out, num, den) ==
  IF out.raised
    THEN [reward |-> reward, info |-> Some(0)]
    ELSE [reward |-> reward + (out.val * num) \div den, info |-> Some(out.val)]

\* lines 460-467 and 472-481: try: reward += weight * score; info[...] =
\* score; except: info[...] = None
TryScore(reward, out, num, den) ==
  IF out.raised
    THEN [reward |-> reward, info |-> None]
    ELSE [reward |-> reward + (out.val * num) \div den, info |-> Some(out.val)]

\* lines 459 and 471: is the component computed in episode i?
SurrogateOn(i) == use_surrogate /\ i > surrogate_reward_episode_delay
AdversarialOn(i) == use_adversarial /\ i < adversarial_reward_episode_cutoff

\* What the scorer of a terminal step can do.
ScorerOutcomes(on) ==
  IF on THEN {Raised} \cup { Returned(v) : v \in ScorerRewards }
  ELSE {NotCalled}

\* lines 457-485: the reward and the info entries of a terminal step
Terminal(reward, i, surr_out, advers_out) ==
  LET s == IF SurrogateOn(i) THEN TryScore(reward, surr_out, 1, 1)
           ELSE [reward |-> reward, info |-> None]
      a == IF AdversarialOn(i) THEN TryScore(s.reward, advers_out, 1, 2)
           ELSE [reward |-> s.reward, info |-> None]
  IN [reward |-> a.reward,
      info |-> [surrogate_reward |-> s.info, adversarial_reward |-> a.info,
                final_reward |-> Some(a.reward)]]

\* lines 366-400, 430-434: ppo has been constructed (policy_old loaded from
\* policy, line 196); args.eval is read, and in eval mode the pre-trained
\* parameters are loaded into ppo.policy (line 397)
TPStart ==
  /\ tpc = "init"
  /\ eval' \in BOOLEAN
  /\ IF eval'
       THEN \E pretrained \in Params :
              policy' = LoadStateDict(policy, pretrained)
       ELSE policy' = policy
  /\ tpc' = "episode"
  /\ UNCHANGED <<ppo_i_episode, ppo_t, ppo_time_step, trajectory_count,
                 ppo_memory, info, step_out, ppo_updates, disc_updates, surr,
                 serialVars, syncVars, policy_old, updateVars>>

\* lines 440-446: the next episode begins with env.reset
TPEpisode ==
  /\ tpc = "episode"
  /\ ppo_i_episode < ppo_max_episodes
  /\ ppo_i_episode' = ppo_i_episode + 1
  /\ trajectory_count' = trajectory_count + 1
  /\ ppo_t' = 0
  /\ tpc' = "step"
  /\ UNCHANGED <<eval, ppo_time_step, ppo_memory, info, step_out, ppo_updates,
                 disc_updates, surr, serialVars, syncVars, ppoVars>>

\* lines 450-513: one step: env.step, the terminal step's reward components,
\* the reward and the terminal flag recorded
TPStep ==
  /\ tpc = "step"
  /\ ppo_time_step' = ppo_time_step + 1
  /\ \E reward \in EnvRewards, done \in BOOLEAN :
       \E so \in ScorerOutcomes(done /\ SurrogateOn(ppo_i_episode)),
          ao \in ScorerOutcomes(done /\ AdversarialOn(ppo_i_episode)) :
         LET fin == IF done THEN Terminal(reward, ppo_i_episode, so, ao)
                    ELSE [reward |-> reward, info |-> EnvInfo]
         IN /\ step_out' = [reward |-> reward, done |-> done, surr |-> so,
                            advers |-> ao]
            /\ info' = fin.info
            /\ ppo_memory' =
                 [rewards |-> Append(ppo_memory.rewards, fin.reward),
                  is_terminals |-> Append(ppo_memory.is_terminals, done)]
  /\ tpc' = "update"
  /\ UNCHANGED <<eval, ppo_i_episode, ppo_t, trajectory_count, ppo_updates,
                 disc_updates, surr, serialVars, syncVars, ppoVars>>

\* line 516: is it time for ppo.update?
UpdateDue(ts, ev) == ts % update_timestep = 0 /\ ev = FALSE

\* lines 516-526: ppo.update (gradient steps on the policy, then policy_old
\* loaded from it, 283-288) and memory.clear_memory when it is time
TPUpdate ==
  /\ tpc = "update"
  /\ IF UpdateDue(ppo_time_step, eval)
       THEN /\ ppo_updates' = ppo_updates + 1
            /\ policy' \in Params
            /\ policy_old' = LoadStateDict(policy_old, policy')
            /\ ppo_memory' = PPOMemory
            /\ trajectory_count' = 0
       ELSE UNCHANGED <<ppo_updates, policy, policy_old, ppo_memory,
                        trajectory_count>>
  /\ tpc' = "disc"
  /\ UNCHANGED <<eval, ppo_i_episode, ppo_t, ppo_time_step, info, step_out,
                 disc_updates, surr, serialVars, syncVars, updateVars>>

\* Variant that trains the discriminator with every main update.
DiscDueEveryUpdate(ts, i) == ts % update_timestep = 0 /\ AdversarialOn(i)

\* lines 528-529: is it time for ppo.update_disc?
DiscDue(ts, i) ==
  ts % (update_timestep * truth_frequency) = 0 /\ AdversarialOn(i)

\* lines 528-535: ppo.update_disc when it is time: a gradient step on the
\* policy, then policy_old loaded from it (300-306). In eval mode the loop
\* runs with gradients disabled (line 448), so the loss has no graph and
\* backward() (line 301) raises before the optimizer steps.
TPDisc ==
  /\ tpc = "disc"
  /\ IF DiscDue(ppo_time_step, ppo_i_episode)
       THEN /\ disc_updates' = disc_updates + 1
            /\ IF eval
                 THEN /\ tpc' = "raised"
                      /\ UNCHANGED <<policy, policy_old>>
                 ELSE /\ policy' \in Params
                      /\ policy_old' = LoadStateDict(policy_old, policy')
                      /\ tpc' = "next"
       ELSE /\ tpc' = "next"
            /\ UNCHANGED <<disc_updates, policy, policy_old>>
  /\ UNCHANGED <<eval, ppo_i_episode, ppo_t, ppo_time_step, trajectory_count,
                 ppo_memory, info, step_out, ppo_updates, surr, serialVars,
                 syncVars, updateVars>>

\* lines 541-543 and 450: break on done, else the next t of the range
TPNext ==
  /\ tpc = "next"
  /\ IF step_out.done \/ ppo_t + 1 = ppo_max_timesteps
       THEN tpc' = "episode" /\ ppo_t' = ppo_t
       ELSE tpc' = "step" /\ ppo_t' = ppo_t + 1
  /\ UNCHANGED <<eval, ppo_i_episode, ppo_time_step, trajectory_count,
                 ppo_memory, info, step_out, ppo_updates, disc_updates, surr,
                 serialVars, syncVars, ppoVars>>

\* lines 556-560: solved, the episode loop is left early
TPSolved ==
  /\ tpc = "episode"
  /\ ppo_i_episode >= 1
  /\ ppo_i_episode < ppo_max_episodes
  /\ tpc' = "done"
  /\ UNCHANGED <<eval, ppo_i_episode, ppo_t, ppo_time_step, trajectory_count,
                 ppo_memory, info, step_out, ppo_updates, disc_updates, surr,
                 serialVars, syncVars, ppoVars>>

\* line 440: the range of episodes is exhausted
TPEnd ==
  /\ tpc = "episode"
  /\ ppo_i_episode = ppo_max_episodes
  /\ tpc' = "done"
  /\ UNCHANGED <<eval, ppo_i_episode, ppo_t, ppo_time_step, trajectory_count,
                 ppo_memory, info, step_out, ppo_updates, disc_updates, surr,
                 serialVars, syncVars, ppoVars>>

NextTrainPPO ==
  \/ TPStart \/ TPEpisode \/ TPStep \/ TPUpdate \/ TPDisc \/ TPNext
  \/ TPSolved \/ TPEnd

SpecTrainPPO == Init /\ [][NextTrainPPO]_vars

\* ------------------------------------------------------------------------
\* train_serial (train.py 404-458)
\* ------------------------------------------------------------------------
\* The single trajectory of the serial loop is tagged as slot 0's.
SerialSlot == 0

\* lines 431-443: the reward of step t of episode ep that ended in state
SerialReward(t, done, state, ep) ==
  LET main == IF t = max_timesteps - 1 \/ done THEN MainReward(state) ELSE 0
  IN IF InnovationWindow(ep) THEN main + InnoReward(state) ELSE main

\* lines 414-415: the next episode begins with env.reset()
SerialEpisode ==
  /\ spc = "episode"
  /\ serial_i_episode < max_episodes
  /\ serial_i_episode' = serial_i_episode + 1
  /\ \E o \in EnvResetOutcomes(SerialSlot) :
       /\ serial_state' = o.state
       /\ serial_candidates' = o.cands
       /\ serial_done' = o.done
  /\ serial_t' = 0
  /\ env_dones' = <<>>
  /\ serial_pairs' = <<>>
  /\ spc' = "step"
  /\ UNCHANGED <<time_step, serial_memory, serial_updates, surr, tppoVars,
                 syncVars, ppoVars>>

\* lines 417-451: one step: the action selected and recorded, env.step, the
\* reward and the terminal flag recorded
SerialStep ==
  /\ spc = "step"
  /\ serial_candidates # <<>>
  /\ time_step' = time_step + 1
  /\ \E action \in 0 .. (Len(serial_candidates) - 1) :
       \E o \in EnvStepOutcomes(serial_candidates[action + 1]) :
         LET reward == SerialReward(serial_t, o.done, o.state,
                                    serial_i_episode)
             cands == Flatten([k \in 1 .. Len(serial_candidates) |->
                                 Emb(serial_candidates[k])])
         IN /\ serial_memory' =
                 [states      |-> Append(serial_memory.states,
                                         Emb(serial_state)),
                  candidates  |-> Append(serial_memory.candidates, cands),
                  states_next |-> Append(serial_memory.states_next,
                                         cands[action + 1]),
                  actions     |-> Append(serial_memory.actions, action),
                  logprobs    |-> Append(serial_memory.logprobs, 0),
                  rewards     |-> Append(serial_memory.rewards, reward),
                  terminals   |-> Append(serial_memory.terminals, o.done)]
            /\ serial_pairs' = Append(serial_pairs,
                                      [reward |-> reward, terminal |-> o.done])
            /\ env_dones' = Append(env_dones, o.done)
            /\ serial_state' = o.state
            /\ serial_candidates' = o.cands
            /\ serial_done' = o.done
            /\ IF o.done \/ serial_t + 1 = max_timesteps
                 THEN spc' = "update" /\ serial_t' = serial_t
                 ELSE spc' = "step" /\ serial_t' = serial_t + 1
  /\ UNCHANGED <<serial_i_episode, serial_updates, surr, tppoVars, syncVars,
                 ppoVars>>

\* lines 420-425: no candidate to choose from: indexing candidates_emb raises
SerialCrash ==
  /\ spc = "step"
  /\ serial_candidates = <<>>
  /\ spc' = "crashed"
  /\ UNCHANGED <<serial_i_episode, serial_t, time_step, serial_memory,
                 serial_state, serial_candidates, serial_done, serial_updates,
                 env_dones, serial_pairs, surr, tppoVars, syncVars, ppoVars>>

\* Variant that updates only when the counter stands at the interval.
SerialUpdateDueExact(ts) == ts = update_timesteps

\* line 454: is it time for model.update?
SerialUpdateDue(ts) == ts >= update_timesteps

\* lines 453-458: update if it's time, then the buffer is cleared
SerialUpdate ==
  /\ spc = "update"
  /\ IF SerialUpdateDue(time_step)
       THEN /\ time_step' = 0
            /\ serial_updates' = serial_updates + 1
            /\ serial_memory' = MemoryClear(serial_memory)
       ELSE UNCHANGED <<time_step, serial_updates, serial_memory>>
  /\ spc' = "episode"
  /\ UNCHANGED <<serial_i_episode, serial_t, serial_state, serial_candidates,
                 serial_done, env_dones, serial_pairs, surr, tppoVars,
                 syncVars, ppoVars>>

\* lines 468-472: solved, the episode loop is left early
SerialSolved ==
  /\ spc = "episode"
  /\ serial_i_episode >= 1
  /\ serial_i_episode < max_episodes
  /\ spc' = "done"
  /\ UNCHANGED <<serial_i_episode, serial_t, time_step, serial_memory,
                 serial_state, serial_candidates, serial_done, serial_updates,
                 env_dones, serial_pairs, surr, tppoVars, syncVars, ppoVars>>

\* line 414: the range of episodes is exhausted
SerialEnd ==
  /\ spc = "episode"
  /\ serial_i_episode = max_episodes
  /\ spc' = "done"
  /\ UNCHANGED <<serial_i_episode, serial_t, time_step, serial_memory,
                 serial_state, serial_candidates, serial_done, serial_updates,
                 env_dones, serial_pairs, surr, tppoVars, syncVars, ppoVars>>

NextSerial ==
  \/ SerialEpisode \/ SerialStep \/ SerialCrash \/ SerialUpdate
  \/ SerialSolved \/ SerialEnd

SpecSerial == Init /\ [][NextSerial]_vars

\* What train_gpu_sync with one worker records for the k-th step of its
\* ep-th episode when env.reset(state) reports envdone: the worker's counter
\* stands at k (lines 98-104), the done result gets the main reward and True
\* (271-283), any other 0 and False (284-288), and the innovation reward is
\* added with i_episode already counting an episode that has just ended
\* (274, 290-305).
ParallelPair(k, envdone, ep) ==
  LET done == HorizonDone(k, envdone)
      state == Mol(SerialSlot, k)
      i_ep == IF done THEN ep ELSE ep - 1
      base == IF done THEN MainReward(state) ELSE 0
  IN [reward |-> IF InnovationWindow(i_ep)
                   THEN base + iota * InnoReward(state) ELSE base,
      terminal |-> done]

\* The pairs of an episode in which env.reset(state) reported dones.
ParallelPairs(dones, ep) ==
  [k \in 1 .. Len(dones) |-> ParallelPair(k, dones[k], ep)]

\* ========================================================================
\* Properties
\* ========================================================================

\* ---- Discounted returns (PPO_GCPN.update, lines 212-218) ----------------
\* The reversed loop has visited the whole buffer.
ReturnsReady == ppc = "epoch"

\* The first index j >= t whose terminal flag is true, or the last index.
SegEnd(t) ==
  LET n == Len(mem_terminals)
      T == { j \in t .. n : mem_terminals[j] }
  IN IF T = {} THEN n ELSE CHOOSE j \in T : \A j2 \in T : j <= j2

\* The index just before the next j > t whose terminal flag is true, or the
\* last index.
SegEndBeforeNext(t) ==
  LET n == Len(mem_terminals)
      T == { j \in (t + 1) .. n : mem_terminals[j] }
  IN IF T = {} THEN n ELSE (CHOOSE j \in T : \A j2 \in T : j <= j2) - 1

\* sum of gamma^(k-t) * reward[k] for k in t..e, in units of 1 / Scale
RECURSIVE DiscountedSum(_, _, _)
DiscountedSum(t, k, e) ==
  IF k > e THEN 0
  ELSE mem_rewards[k] * Pow(GammaNum, k - t) * Pow(GammaDen, MaxLen - (k - t))
       + DiscountedSum(t, k + 1, e)

\* C1 (as amended): once the loop of update() has run over a non-empty
\* buffer, the list of returns has the buffer's length and order, and the
\* return at index t is the sum of gamma^(k-t) * reward[k] for k from t up to
\* and including the first index j >= t whose terminal flag is true (or the
\* end of the buffer); no reward after such a j contributes.  Rewards
\* [0,0,5] with terminals [F,F,T] and gamma 0.9 give [4.05, 4.5, 5.0].
C1_DiscountedReturns ==
  ReturnsReady =>
    /\ Len(rewards) = Len(mem_rewards)
    /\ \A t \in 1 .. Len(mem_rewards) :
         rewards[t] = DiscountedSum(t, t, SegEnd(t))
    /\ (mem_rewards = <<0, 0, 5>> /\ mem_terminals = <<FALSE, FALSE, TRUE>>)
         => rewards = <<(405 * Scale) \div 100, (45 * Scale) \div 10, 5 * Scale>>

\* A buffer with a terminal flag in the middle and rewards on both sides.
C1_Witness ==
  /\ ReturnsReady
  /\ mem_rewards = <<1, 5, 5>>
  /\ mem_terminals = <<FALSE, TRUE, FALSE>>
  /\ rewards = <<(55 * Scale) \div 10, 5 * Scale, 5 * Scale>>

\* C1 as stated: the segment of t ends immediately before the next index
\* j > t whose terminal flag is true, and the reward at j does not contribute.
C1_Original ==
  ReturnsReady =>
    /\ Len(rewards) = Len(mem_rewards)
    /\ \A t \in 1 .. Len(mem_rewards) :
         rewards[t] = DiscountedSum(t, t, SegEndBeforeNext(t))

\* ---- Round synchronization (train_gpu_sync) ----------------------------
Fillers(q) == Len(SelectSeq(q, LAMBDA c : c.kind = "cmd" /\ c.index = NoneIdx))
Held == { w \in Procs : wpc[w] = "run" }

\* C2: when the coordinator blocks in a round's join it has enqueued exactly
\* nb_procs commands (continuations of the active slots plus resets or
\* fillers); it reads results only after all of them were acknowledged, and
\* reads exactly nb_procs; the result channel is empty when the first command
\* of a round is enqueued and holds only that round's results afterwards.
C2_RoundSync ==
  /\ cpc \in {"put", "join"} => Len(notdone_idx) + Len(done_idx) = nb_procs
  /\ cpc \in {"init_join", "join"} => sent = nb_procs
  /\ cpc \in {"init_put", "put", "init_join", "join"} =>
       Len(results) = sent - Len(tasks) - Cardinality(Held)
  /\ (cpc \in {"init_put", "put"} /\ sent = 0) => results = <<>>
  /\ cpc \in {"init_get", "get"} =>
       /\ unfinished = 0 /\ tasks = <<>> /\ Held = {}
       /\ got + Len(results) = nb_procs
  /\ cpc \in {"select", "rewards"} => (got = nb_procs /\ results = <<>>)

\* A round with an active slot and a slot awaiting reset has been collected
\* in full.
C2_Witness ==
  /\ cpc = "rewards"
  /\ got = nb_procs
  /\ results = <<>>
  /\ Len(notdone_idx) > 0
  /\ Len(done_idx) > 0

\* ---- Result-to-slot matching (train_gpu_sync) --------------------------
AllOfSlot(mols, s) == \A k \in 1 .. Len(mols) : mols[k].slot = s

RECURSIVE Membership(_, _)
Membership(idxs, cs) ==
  IF idxs = <<>> THEN <<>>
  ELSE Repeat(Head(idxs), Len(Head(cs))) \o Membership(Tail(idxs), Tail(cs))

\* The slot list the current candidates and batch_idx were built for.
LiveIdx == IF cpc \in {"get", "rewards"} THEN new_notdone_idx ELSE notdone_idx

StepOfSlot(m, k, s) ==
  LET mol == m.states[k][1] IN
  /\ mol.slot = s
  /\ m.candidates[k] = [j \in 1 .. NumCands(mol) |-> Emb(Mol(s, mol.depth + 1))]
  /\ m.actions[k] \in 0 .. (Len(m.candidates[k]) - 1)
  /\ m.states_next[k] = m.candidates[k][m.actions[k] + 1]

\* C3: every published result carries the state and candidates of the slot
\* its index names; the coordinator files them under that slot (states,
\* candidates[i] for notdone_idx[i], batch_idx); every continuation command
\* sends a slot one of its own candidates; every recorded step of a slot
\* holds that slot's state, exactly that state's candidates, and a chosen
\* action within them.
C3_SlotMatching ==
  /\ \A k \in 1 .. Len(results) :
       results[k].index # NoneIdx =>
         /\ results[k].state.slot = results[k].index
         /\ AllOfSlot(results[k].cands, results[k].index)
  /\ \A s \in Slots : states[s] # NoMol => states[s].slot = s
  /\ Len(candidates) = Len(LiveIdx)
  /\ \A i \in 1 .. Len(candidates) : AllOfSlot(candidates[i], LiveIdx[i])
  /\ batch_idx = Membership(LiveIdx, candidates)
  /\ \A k \in 1 .. Len(tasks) :
       (tasks[k].kind = "cmd" /\ ~tasks[k].done) =>
         tasks[k].state.slot = tasks[k].index
  /\ \A w \in Held :
       (wtask[w].kind = "cmd" /\ ~wtask[w].done) =>
         wtask[w].state.slot = wtask[w].index
  /\ \A s \in Slots :
       \A k \in 1 .. Len(memories[s].states) : StepOfSlot(memories[s], k, s)

\* Results arrived in the order slot 1, slot 0, and both slots have had a
\* step recorded and a continuation sent.
C3_Witness ==
  /\ cpc = "join"
  /\ notdone_idx = <<1, 0>>
  /\ Len(candidates[1]) = 2
  /\ batch_idx = <<1, 1, 0>>
  /\ Len(memories[0].states) = 1
  /\ Len(memories[1].states) = 1
  /\ memories[1].actions = <<1>>

\* ---- Aggregation (train_gpu_sync 314-320) ------------------------------
RECURSIVE ConcatField(_, _)
ConcatField(f, k) ==
  IF k = nb_procs THEN <<>> ELSE memories[k][f] \o ConcatField(f, k + 1)

\* The slot buffers laid end to end in slot order, list by list.
Aggregate == [f \in DOMAIN Memory |-> ConcatField(f, 0)]

MergeStepOK ==
  (cpc = "merge" /\ cpc' = "update") =>
    /\ memory' = Aggregate
    /\ \A s \in Slots : memories'[s] = Memory

\* C5: the merge leaves in the aggregated buffer exactly the slot buffers'
\* steps, slot by slot in their recorded order, each once, and nothing
\* else; it leaves every slot buffer empty; the slot buffers are empty from
\* the merge to the start of the next phase, and the aggregated buffer is
\* empty everywhere except between the merge and the end of the update.
C5_Aggregation ==
  /\ [][MergeStepOK]_vars
  /\ [](cpc \in {"update", "clear", "start", "init_put", "init_join",
                 "init_get"} => \A s \in Slots : memories[s] = Memory)
  /\ [](cpc \notin {"update", "clear"} => memory = Memory)

\* A second collection phase has been merged, with steps of both slots.
C5_Witness ==
  /\ cpc = "update"
  /\ phases = 2
  /\ Len(memory.rewards) >= 3
  /\ \E k \in 1 .. Len(memory.states) : memory.states[k][1].slot = 0
  /\ \E k \in 1 .. Len(memory.states) : memory.states[k][1].slot = 1

\* ---- Update atomicity (PPO_GCPN.update 238-288) ------------------------
InUpdate == ppc \in {"returns", "epoch", "step"}

\* Within update(), a step that writes policy_old is the step after the
\* K-th epoch, leaves update(), and makes policy_old equal to the live policy.
UpdateStepOK ==
  (InUpdate /\ (policy_old' # policy_old \/ old_writes' # old_writes)) =>
    /\ epoch = K_epochs
    /\ ppc' = "idle"
    /\ old_writes' = 1
    /\ policy' = policy
    /\ policy_old' = policy

\* C4: during the K epochs of an update cycle policy_old is not written; it
\* is written once, after the K-th gradient step, with the live parameters;
\* right after the cycle the two parameter sets are identical.
C4_UpdateAtomicity ==
  /\ [][UpdateStepOK]_vars
  /\ [](InUpdate \/ ppc = "exited" => old_writes = 0)
  /\ [][(InUpdate /\ ppc' = "idle") =>
          (epoch = K_epochs /\ old_writes' = 1 /\ policy_old' = policy')]_vars
  /\ [](ppc = "idle" => policy_old = policy)

\* An update cycle has completed after K gradient steps that changed the
\* live parameters.
C4_Witness ==
  /\ ppc = "idle"
  /\ epoch = K_epochs
  /\ old_writes = 1
  /\ policy = 2
  /\ policy_old = 2

\* ---- Shutdown (Worker.run 85-89, train_gpu_sync 358-360) ---------------
\* C6: no worker consumes two sentinels; a worker that has consumed one has
\* exited and takes no further step; once the coordinator has enqueued the
\* sentinels its join returns, and then every worker has consumed exactly
\* one sentinel, acknowledged it and exited.
C6_CooperativeShutdown ==
  /\ [](\A w \in Procs : pills[w] <= 1 /\ (pills[w] = 1 <=> wpc[w] = "exited"))
  /\ [][\A w \in Procs : wpc[w] = "exited" =>
          (wpc'[w] = "exited" /\ wtask'[w] = wtask[w] /\ pills'[w] = pills[w])]_vars
  /\ [](cpc = "finished" =>
          /\ \A w \in Procs : wpc[w] = "exited" /\ pills[w] = 1
          /\ tasks = <<>>
          /\ unfinished = 0)
  /\ (cpc = "close_join" ~> cpc = "finished")

\* The shutdown has completed after at least one collection phase.
C6_Witness ==
  /\ cpc = "finished"
  /\ shutdowns = 1
  /\ updates >= 1
  /\ \A w \in Procs : pills[w] = 1

\* C7 as stated: a second shutdown of the stopped pool completes (its join
\* returns) and no worker acknowledges a second sentinel.
C7_SecondShutdownCompletes ==
  /\ [](\A w \in Procs : pills[w] <= 1)
  /\ ((cpc = "close_join" /\ shutdowns = 1) ~> (cpc = "finished" /\ shutdowns = 2))

\* ---- Horizon (Worker.run 97-104) ---------------------------------------
\* C8 as stated: a trajectory is reported done at its max_timesteps-th step
\* continuation at the latest, the step counter does not force done earlier
\* (a done result that still lists candidates is one the counter forced),
\* and no slot trajectory records more than max_timesteps steps.
C8_HorizonPerSlot ==
  /\ \A k \in 1 .. Len(results) :
       LET r == results[k] IN
       r.index # NoneIdx =>
         /\ r.state.depth <= max_timesteps
         /\ r.state.depth = max_timesteps => r.done
         /\ (r.done /\ r.cands # <<>> /\ r.state.depth > 0) =>
              r.state.depth = max_timesteps
  /\ \A s \in Slots : \A k \in 1 .. Len(memories[s].states) :
       memories[s].states[k][1].depth < max_timesteps

\* ---- Budget gate (train_gpu_sync 241-245) ------------------------------
IsReset(c) == c.kind = "cmd" /\ c.index # NoneIdx /\ c.done
IsFiller(c) == c.kind = "cmd" /\ c.index = NoneIdx

\* C9: while sample_count >= update_timesteps no reset command is queued or
\* being processed; in a round dispatched in that situation every slot
\* awaiting reset got a filler, and the round still has nb_procs commands.
C9_BudgetGate ==
  /\ sample_count >= update_timesteps =>
       /\ \A k \in 1 .. Len(tasks) : ~IsReset(tasks[k])
       /\ \A w \in Held : ~IsReset(wtask[w])
       /\ \A k \in 1 .. Len(results) :
            results[k].index # NoneIdx => results[k].state.depth > 0
  /\ (sample_count >= update_timesteps /\ cpc = "join") =>
       /\ sent = nb_procs
       /\ Fillers(tasks) + Cardinality({w \in Held : IsFiller(wtask[w])})
            + Len(SelectSeq(results, LAMBDA r : r.index = NoneIdx))
            = Len(done_idx)

\* The budget is met, one slot is still active, and the other slot's filler
\* is queued.
C9_Witness ==
  /\ cpc = "join"
  /\ sample_count >= update_timesteps
  /\ Len(notdone_idx) > 0
  /\ Len(done_idx) > 0
  /\ Fillers(tasks) > 0

\* ---- Loop exit (train_gpu_sync 228-230, 314-320) -----------------------
InCollection ==
  cpc \in {"init_put", "init_join", "init_get", "select", "put", "join",
           "get", "rewards", "merge", "update", "crashed"}

\* C10: the round loop is left, and model.update called, only with no slot
\* active, no command outstanding and sample_count >= update_timesteps;
\* every collection phase that has ended was followed by exactly one update.
C10_LoopExit ==
  /\ cpc \in {"merge", "update"} =>
       /\ Len(notdone_idx) = 0
       /\ tasks = <<>> /\ unfinished = 0 /\ Held = {}
       /\ sample_count >= update_timesteps
       /\ Len(done_idx) = nb_procs
  /\ updates = IF InCollection THEN phases - 1 ELSE phases

\* The update of a second collection phase is about to run.
C10_Witness ==
  /\ cpc = "update"
  /\ phases = 2
  /\ updates = 1
  /\ sample_count >= update_timesteps

\* ---- Non-finite loss (PPO_GCPN.update 245-288) -------------------------
\* An epoch of the update cycle has just taken its gradient step.
GradientStep == ppc = "step" /\ epoch' = epoch + 1

\* C11 as stated: an epoch whose surrogate term or whose loss (the sum of the
\* surrogate, entropy, value and adversarial terms, non-finite exactly when
\* one of them is) is NaN or infinite takes no gradient step.
C11_NonFiniteHalts ==
  [][GradientStep => (terms'.l = "fin" /\ terms'.loss = "fin")]_vars

\* ---- Clipped surrogate (PPO_GCPN.update 250-253) -----------------------
Min(a, b) == IF a <= b THEN a ELSE b
Max(a, b) == IF a >= b THEN a ELSE b
Abs(a) == IF a >= 0 THEN a ELSE -a

\* The ratio is above 1 + eps (+inf included) / below 1 - eps.
AboveClip(r) == r.cls = "inf" \/ (r.cls = "fin" /\ r.val > RatioDen + eps_clip)
BelowClip(r) == r.cls = "fin" /\ r.val < RatioDen - eps_clip

\* C15: for a finite advantage A, l is -min(ratio * A, clip(ratio) * A); for
\* ratio = 1 it is -A; for ratio > 1 + eps with A > 0 and for ratio < 1 - eps
\* with A < 0 it is the clipped branch, within eps * |A| of -A.
C15_ClippedSurrogate ==
  LET r == surr.ratio
      a == surr.advantage
      l == surr.l
  IN IsFinite(a) =>
       /\ IsFinite(r) =>
            l = Fin(-Min(r.val * a.val,
                         Max(RatioDen - eps_clip,
                             Min(RatioDen + eps_clip, r.val)) * a.val))
       /\ r = Fin(RatioDen) => l = Fin(-(RatioDen * a.val))
       /\ (AboveClip(r) /\ a.val > 0) =>
            /\ l = Fin(-((RatioDen + eps_clip) * a.val))
            /\ Abs(l.val + RatioDen * a.val) <= eps_clip * Abs(a.val)
       /\ (BelowClip(r) /\ a.val < 0) =>
            /\ l = Fin(-((RatioDen - eps_clip) * a.val))
            /\ Abs(l.val + RatioDen * a.val) <= eps_clip * Abs(a.val)

\* A ratio of 2 with advantage 2 has been evaluated: l is -2.4, not -4.
C15_Witness ==
  /\ surr.ratio = Fin(20)
  /\ surr.advantage = Fin(2)
  /\ surr.l = Fin(-24)

\* ---- Channel protocol violation (train_gpu_sync 246-261) ---------------
\* The coordinator has ended on an error.
FatalError == cpc = "crashed"

\* C12 as stated: once a worker has died holding a command of the round, so
\* that fewer than nb_procs results and acknowledgments can arrive, the
\* coordinator reaches a fatal error state.
C12_ProtocolViolationFatal ==
  (\E w \in Procs : wpc[w] = "failed") ~> FatalError

\* ---- Scoring failure (train_ppo 457-513) -------------------------------
\* What a scorer's outcome adds to the reward, with weight num / den.
Contribution(out, num, den) ==
  IF out.called /\ ~out.raised THEN (out.val * num) \div den ELSE 0

\* The step just made was terminal and one of its scorers raised.
ScorerRaised ==
  tpc = "update" /\ step_out.done /\ (step_out.surr.raised \/ step_out.advers.raised)

\* C13: after a terminal step in which the surrogate or the adversarial
\* scorer raised, that component's info entry is None, the recorded reward is
\* the environment's reward plus the other components only, the terminal
\* flag is recorded, and train_ppo stands at its next statement.
C13_ScoringFailureSwallowed ==
  ScorerRaised =>
    LET n == Len(ppo_memory.rewards) IN
    /\ n >= 1
    /\ Len(ppo_memory.is_terminals) = n
    /\ step_out.surr.raised => info.surrogate_reward = None
    /\ step_out.advers.raised => info.adversarial_reward = None
    /\ ppo_memory.rewards[n] = step_out.reward
                                 + Contribution(step_out.surr, 1, 1)
                                 + Contribution(step_out.advers, 1, 2)
    /\ ppo_memory.is_terminals[n] = TRUE
    /\ info.final_reward = Some(ppo_memory.rewards[n])

\* The surrogate raised while the adversarial scorer returned a score: only
\* half the adversarial score was added.
C13_Witness ==
  /\ ScorerRaised
  /\ step_out.surr.raised
  /\ step_out.advers = Returned(RewardDen)
  /\ step_out.reward = RewardDen
  /\ info.surrogate_reward = None
  /\ ppo_memory.rewards[Len(ppo_memory.rewards)] = RewardDen + 1

\* ---- Serial/parallel equivalence (train_serial 414-458) ----------------
\* An episode of train_serial has just ended.
SerialEpisodeOver == spc = "update"

\* C14 as stated: for the same environment outcomes the episode's (reward,
\* terminal) pairs of train_serial are those of train_gpu_sync with one
\* worker; an episode cut off by the horizon ends with terminal flag true.
C14_SerialParallelEquivalence ==
  SerialEpisodeOver =>
    /\ serial_pairs = ParallelPairs(env_dones, serial_i_episode)
    /\ serial_pairs[Len(serial_pairs)].terminal = TRUE

\* ---- Termination detection (train_gpu_sync 247-288) --------------------
\* The innovation reward lines 290-305 add to a reward once it is appended.
Bonus(s) ==
  IF InnovationWindow(i_episode') THEN iota * InnoReward(states[s]) ELSE 0

\* C16: the rewards step of a round appends exactly one (reward, terminal)
\* pair to the buffer of every slot that was active and none to any other;
\* the pair appended is (main reward of the newly reported state, True)
\* exactly when the slot's result of the round reported done, (0, False)
\* otherwise (the round's innovation reward is then added to it).
C16_TerminationDetection ==
  [][cpc = "rewards" =>
       \A s \in Slots :
         LET n == Len(memories[s].rewards)
             done == InSeq(s, new_done_idx)
         IN IF InSeq(s, notdone_idx)
              THEN /\ Len(memories'[s].rewards) = n + 1
                   /\ Len(memories'[s].terminals) = Len(memories[s].terminals) + 1
                   /\ SubSeq(memories'[s].rewards, 1, n) = memories[s].rewards
                   /\ memories'[s].terminals[n + 1] = done
                   /\ memories'[s].rewards[n + 1] - Bonus(s) =
                        (IF done THEN MainReward(states[s]) ELSE 0)
              ELSE memories'[s] = memories[s]]_vars

\* A round has ended in which one slot finished and the other went on.
C16_Witness ==
  /\ cpc = "select"
  /\ \E s, t \in Slots :
       /\ Len(memories[s].terminals) >= 1
       /\ Len(memories[t].terminals) >= 2
       /\ memories[s].terminals[Len(memories[s].terminals)] = TRUE
       /\ memories[t].terminals[Len(memories[t].terminals)] = FALSE
       /\ Len(memories[s].rewards) = Len(memories[s].states)
       /\ Len(memories[t].rewards) = Len(memories[t].states)

\* ---- Active-set membership (train_gpu_sync 201-224, 251-261) -----------
\* The coordinator is reading a result that reports done for a slot.
ReadsDone ==
  /\ cpc \in {"init_get", "get"}
  /\ results # <<>>
  /\ Head(results).index # NoneIdx
  /\ Head(results).done

\* C17 as stated: in every round, the first round of a phase included, a
\* slot whose result reports done is not placed in the active set, so it is
\* never passed to action selection.
C17_ActiveSetMembership ==
  /\ [][ReadsDone =>
          /\ ~InSeq(Head(results).index, notdone_idx')
          /\ ~InSeq(Head(results).index, new_notdone_idx')]_vars
  /\ [](cpc = "select" =>
          \A k \in 1 .. Len(notdone_idx) : candidates[k] # <<>>)

\* ---- Outstanding tasks (train_gpu_sync 232-264, 311-312) ---------------
\* Commands of slot s in the task channel or held by a worker.
Outstanding(s) ==
  Len(SelectSeq(tasks, LAMBDA c : c.kind = "cmd" /\ c.index = s))
  + Cardinality({ w \in Procs : /\ wpc[w] = "run"
                                /\ wtask[w].kind = "cmd"
                                /\ wtask[w].index = s })

\* How often slot s occurs in a list of slot indices.
Occurrences(idxs, s) == Cardinality({ k \in 1 .. Len(idxs) : idxs[k] = s })

\* C18: every slot index has at most one command outstanding (queued or being
\* processed); while a round is dispatched the active list and the done list
\* hold no slot twice, share no slot and have nb_procs entries together, and
\* so do the two lists filed from the round's results.
C18_OutstandingTasks ==
  /\ \A s \in Slots : Outstanding(s) <= 1
  /\ cpc \in {"select", "put", "join"} =>
       /\ Len(notdone_idx) + Len(done_idx) = nb_procs
       /\ \A s \in Slots :
            Occurrences(notdone_idx, s) + Occurrences(done_idx, s) <= 1
  /\ cpc = "rewards" =>
       /\ Len(new_notdone_idx) + Len(new_done_idx) = nb_procs
       /\ \A s \in Slots :
            Occurrences(new_notdone_idx, s) + Occurrences(new_done_idx, s) <= 1

\* A continuation of one slot and a reset of the other are outstanding.
C18_Witness ==
  /\ cpc = "join"
  /\ Len(notdone_idx) = 1
  /\ Len(done_idx) = 1
  /\ done_idx[1] # NoneIdx
  /\ Outstanding(notdone_idx[1]) = 1
  /\ Outstanding(done_idx[1]) = 1

\* ---- Phase separation (train_gpu_sync 199-203, 246-320) ----------------
\* Every worker is blocked in task_queue.get() on an empty channel.
WorkersIdle ==
  /\ tasks = <<>>
  /\ \A w \in Procs : wpc[w] = "get" /\ wtask[w] = NoTask

\* C19: from the merge to the end of model.update no command is outstanding,
\* both channels are empty and every worker waits for its next command; the
\* update step touches neither the channels nor the workers, and commands
\* are enqueued again only after it, by the next phase's first round or by
\* the shutdown.
C19_PhaseSeparation ==
  /\ [](cpc \in {"merge", "update", "clear"} =>
          /\ WorkersIdle
          /\ results = <<>>
          /\ unfinished = 0)
  /\ [][cpc = "update" =>
          /\ cpc' = "clear"
          /\ UNCHANGED <<tasks, unfinished, results, wpc, wtask>>]_vars
  /\ [][tasks' # tasks /\ Len(tasks') > Len(tasks) =>
          cpc \in {"init_put", "put", "close"}]_vars

\* The update of a phase in which both slots recorded steps is running.
C19_Witness ==
  /\ cpc = "update"
  /\ phases >= 1
  /\ WorkersIdle
  /\ Len(memory.states) >= update_timesteps

\* ---- Slot affinity (Worker 58-108, train_gpu_sync 144-146) -------------
\* Worker w finishes a step continuation in this step.
StepsSlot(w) ==
  /\ wpc[w] = "run"
  /\ wtask[w].kind = "cmd"
  /\ wtask[w].index # NoneIdx
  /\ ~wtask[w].done
  /\ wpc'[w] = "get"

\* C20 as stated: the commands of a slot are processed by one and the same
\* worker, which counts no other slot's steps, so that the counter of the
\* worker that has processed a slot's step continuation stands at the number
\* of steps the slot has made since its reset.
C20_SlotAffinity ==
  [][\A w \in Procs :
       StepsSlot(w) => timestep_counter'[w] = wtask[w].state.depth]_vars

\* ---- Serial update trigger (train_serial 414-458) ----------------------
\* The seven lists of a buffer all hold n entries.
Holds(m, n) == \A f \in DOMAIN Memory : Len(m[f]) = n

\* The main reward of the k-th step of the running episode, if it is due.
SerialMainDue(k) ==
  IF k = max_timesteps \/ env_dones[k] THEN MainReward(Mol(SerialSlot, k)) ELSE 0

\* The innovation reward of a step of the running episode, if it is due.
SerialBonus(k) ==
  IF InnovationWindow(serial_i_episode) THEN InnoReward(Mol(SerialSlot, k)) ELSE 0

\* C21: train_serial updates at the end of an episode exactly when time_step
\* has reached update_timesteps, and then resets time_step and clears the
\* buffer; the buffer always holds time_step steps, so the buffer passed to
\* update holds time_step steps of whole episodes; a step's reward contains
\* the main reward exactly when the step is the horizon's last or the
\* environment signalled done.
C21_SerialUpdateTrigger ==
  /\ [](Holds(serial_memory, time_step))
  /\ [][serial_updates' # serial_updates =>
          /\ spc = "update"
          /\ time_step >= update_timesteps
          /\ env_dones[Len(env_dones)] \/ Len(env_dones) = max_timesteps
          /\ serial_updates' = serial_updates + 1
          /\ time_step' = 0
          /\ serial_memory' = Memory]_vars
  /\ [][(spc = "update" /\ time_step >= update_timesteps) =>
          serial_updates' = serial_updates + 1]_vars
  /\ [](\A k \in 1 .. Len(serial_pairs) :
          serial_pairs[k].reward = SerialMainDue(k) + SerialBonus(k))

\* The first update has been made, at the end of the second episode.
C21_Witness ==
  /\ serial_updates = 1
  /\ serial_i_episode = 2
  /\ spc = "episode"
  /\ time_step = 0
  /\ serial_memory = Memory

\* ---- Fatal termination (train_gpu_sync 83-89, 265-269, 355-360) --------
\* C22 as stated: once the coordinator has aborted on an error raised during
\* collection or update, every worker eventually receives a sentinel and
\* exits.
C22_FatalTermination ==
  FatalError ~> (\A w \in Procs : wpc[w] = "exited")

\* ---- Adversarial term (PPO_GCPN.update 238-285) ------------------------
\* C23: the loss that a gradient step is taken on contains the adversarial
\* term exactly when the epoch is the last one (i + 1 = K_epochs) and truth
\* is not None; in every other epoch, and whenever truth is None, nothing is
\* added.
C23_AdversarialTerm ==
  [][GradientStep =>
       (terms'.adversarial <=> (truth /\ epoch + 1 = K_epochs))]_vars

\* The last epoch of a cycle with truth has stepped on a loss that contains
\* the adversarial term.
C23_Witness ==
  /\ ppc = "epoch"
  /\ epoch = K_epochs
  /\ truth
  /\ terms.adversarial

C25_InnovationReward ==
  [][cpc = "rewards" =>
       \A s \in Slots :
         LET n == Len(memories[s].rewards)
             done == InSeq(s, new_done_idx)
         IN IF InSeq(s, notdone_idx)
              THEN /\ Len(memories'[s].rewards) = n + 1
                   /\ Len(memories'[s].terminals) = n + 1
                   /\ SubSeq(memories'[s].rewards, 1, n) = memories[s].rewards
                   /\ memories'[s].terminals[n + 1] = done
                   /\ memories'[s].rewards[n + 1] =
                        (IF done THEN MainReward(states[s]) ELSE Bonus(s))
              ELSE memories'[s] = memories[s]]_vars

\* ---- Discriminator-only cadence (train_ppo 515-535) --------------------
\* C26: in training mode update_disc is invoked only at time steps that are
\* multiples of update_timestep * truth_frequency, hence at most once per
\* truth_frequency main updates, and each invocation comes after the main
\* update of the same time step has completed and the buffer has been
\* cleared.
C26_DiscriminatorCadence ==
  /\ [][(~eval /\ disc_updates' # disc_updates) =>
          /\ tpc = "disc"
          /\ disc_updates' = disc_updates + 1
          /\ ppo_time_step % (update_timestep * truth_frequency) = 0
          /\ ppo_updates * update_timestep = ppo_time_step
          /\ ppo_memory = PPOMemory
          /\ trajectory_count = 0]_vars
  /\ [](~eval => disc_updates * truth_frequency <= ppo_updates)

\* In training mode the discriminator has been trained once, after the
\* second main update.
C26_Witness ==
  /\ ~eval
  /\ tpc = "next"
  /\ disc_updates = 1
  /\ ppo_updates = truth_frequency
  /\ ppo_time_step = update_timestep * truth_frequency

\* ---- Per-slot buffer alignment (train_gpu_sync 232-240, 262-288) -------
\* A round has ended: its rewards are recorded and the next one is not begun.
RoundEnd == cpc = "select"

\* C27: at the end of every round the seven lists of every slot's buffer
\* have the same length.
C27_BufferAlignment ==
  RoundEnd => \A s \in Slots : Holds(memories[s], Len(memories[s].states))

\* A round has ended with two steps in one slot's buffer and one in the
\* other's.
C27_Witness ==
  /\ RoundEnd
  /\ \E s, r \in Slots :
       /\ Len(memories[s].logprobs) = 2
       /\ Len(memories[s].terminals) = 2
       /\ Len(memories[r].states) = 1

\* ---- Sample accounting (train_gpu_sync 232-240, 307-320, 352-353) ------
\* The Trajectory Steps held in the buffers of slots k, k + 1, ...
RECURSIVE StepsFrom(_)
StepsFrom(k) ==
  IF k = nb_procs THEN 0 ELSE Len(memories[k].states) + StepsFrom(k + 1)

\* The counters agree with the buffers at every round boundary and at the
\* update.
CountsMatch ==
  /\ [](RoundEnd \/ cpc = "merge" => sample_count = StepsFrom(0))
  /\ [](cpc = "update" =>
          /\ Holds(memory, sample_count)
          /\ sample_count >= update_timesteps)

\* C28 as stated: sample_count equals the steps held in the slot buffers at
\* every round boundary, the buffer passed to update has exactly sample_count
\* steps and at least update_timesteps, and both counters are 0 after every
\* update.
C28_Original ==
  /\ CountsMatch
  /\ [][cpc = "clear" => (sample_count' = 0 /\ episode_count' = 0)]_vars

\* C28: as above, with the counters reset to 0 after every update that is
\* followed by another pass of the phase loop; every collection phase begins
\* with both counters 0.
C28_SampleAccounting ==
  /\ CountsMatch
  /\ [][(cpc = "clear" /\ cpc' = "start") =>
          (sample_count' = 0 /\ episode_count' = 0)]_vars
  /\ [](cpc \in {"start", "init_put"} =>
          (sample_count = 0 /\ episode_count = 0))

\* An update has been made on an aggregate that holds more steps than the
\* budget asks for, all of them counted.
C28_Witness ==
  /\ cpc = "clear"
  /\ updates = 1
  /\ sample_count > update_timesteps
  /\ Holds(memory, sample_count)
  /\ StepsFrom(0) = 0

\* ---- Complete trajectories (train_gpu_sync 228-230, 263-288, 314-319) --
\* Step k of buffer m is followed, in m, by the next step of its own episode.
Continues(m, k) ==
  /\ k < Len(m.terminals)
  /\ m.states[k + 1][1].slot = m.states[k][1].slot
  /\ m.states[k + 1][1].depth = m.states[k][1].depth + 1

\* Every step of m that is not flagged terminal is followed by the next step
\* of its own episode, so that no discounted return runs into another
\* episode or slot, and the last step of m is flagged terminal.
WholeEpisodes(m) ==
  \A k \in 1 .. Len(m.terminals) : m.terminals[k] \/ Continues(m, k)

\* C29: when the slot buffers are merged, every non-empty one ends with a
\* terminal step and holds whole episodes only; so does the aggregate that
\* is passed to update.
C29_CompleteTrajectories ==
  /\ cpc = "merge" => \A s \in Slots : WholeEpisodes(memories[s])
  /\ cpc = "update" => WholeEpisodes(memory)

\* The aggregate passed to update holds steps of both slots and an episode
\* of more than one step.
C29_Witness ==
  /\ cpc = "update"
  /\ \E j, k \in 1 .. Len(memory.terminals) :
       memory.states[j][1].slot # memory.states[k][1].slot
  /\ \E k \in 1 .. Len(memory.terminals) : ~memory.terminals[k]

\* ---- Episode boundaries in the serial loops (train_serial 417-451,
\* train_ppo 450-543) ------------------------------------------------------
\* The last entry of a non-empty list of terminal flags is true.
EndsTerminal(flags) == flags = <<>> \/ flags[Len(flags)]

\* C30 as stated: when an episode of train_serial or of train_ppo is over,
\* whether the environment signalled done or the horizon cut it off, the
\* last step recorded for it carries terminal flag true.
C30_EpisodeBoundaries ==
  /\ SerialEpisodeOver => EndsTerminal(serial_memory.terminals)
  /\ (tpc = "episode" /\ ppo_i_episode >= 1) =>
       EndsTerminal(ppo_memory.is_terminals)

\* ---- Collection-phase liveness (Worker.run 83-108, train_gpu_sync
\* 216-312) ----------------------------------------------------------------
\* A worker has published the result of a reset that the environment
\* rejected: a start state reported done.
ResetRejected ==
  \E k \in 1 .. Len(results) :
    /\ results[k].index # NoneIdx
    /\ results[k].state.depth = 0
    /\ results[k].done

\* A collection phase is under way.
Collecting ==
  cpc \in {"init_put", "init_join", "init_get", "select", "put", "join",
           "get", "rewards"}

\* C31: with fair scheduling of the coordinator and of every worker, and an
\* environment whose reset never returns a terminal state, every collection
\* phase reaches the exit of the round loop with no slot active and the
\* budget met, and model.update is invoked, whichever worker takes which
\* command.
C31_CollectionLiveness ==
  ([]~ResetRejected) =>
    (Collecting ~>
       (cpc = "update" /\ Len(notdone_idx) = 0
          /\ sample_count >= update_timesteps))

\* The update of a phase is reached in which every episode ran to the
\* horizon, the environment never signalling done.
C31_Witness ==
  /\ cpc = "update"
  /\ Len(memory.terminals) = nb_procs * max_timesteps
  /\ \A k \in 1 .. Len(memory.terminals) :
       memory.terminals[k] <=> (memory.states[k][1].depth = max_timesteps - 1)

\* ---- Eval mode (train_ppo 395-400, 448-449, 515-535) -------------------
\* C32 as stated: in eval mode neither PPO_GCPN.update nor
\* PPO_GCPN.update_disc is ever invoked.
C32_EvalNoUpdate ==
  eval => (ppo_updates = 0 /\ disc_updates = 0)

\* ---- Snapshot consistency during rollout (PPO_GCPN 182-208, 287-306,
\* train_ppo 395-400, 454-455) ---------------------------------------------
\* C33 as stated: whenever train_ppo is about to select an action, the
\* frozen snapshot policy_old has the parameters of the live policy.
C33_SnapshotConsistency ==
  tpc = "step" => policy_old = policy

============================================================================
